---------------------------- MODULE Spec2Model ----------------------------
(***************************************************************************)
(* A model of buildTower, the tower geometry generator of VCP               *)
(* (src/unnamed/part_002, the current revision of src/lib/tower.ts), and of *)
(* the App component that edits its parameters (src/src/App.tsx).           *)
(*   Spec       one buildTower call, step by step                           *)
(*   SpecCalls  a caller making one call after another                      *)
(*   SpecApp    the handlers of the sidebar acting on params and the saved  *)
(*              states, and the drags of the two curve editors              *)
(*   SpecExport the OBJ export of App and its asynchronous steps            *)
(*   SpecPure   the sampler, easeInOut and the scale policy on their own    *)
(*                                                                         *)
(* JavaScript values are records [k, n, d]:                                 *)
(*   k = "num"   the finite number n/d (d > 0, lowest terms)                *)
(*   k = "nan"   NaN                                                        *)
(*   k = "inf"   +Infinity (n = 1) or -Infinity (n = -1)                    *)
(*   k = "str"   a string; Number(string) is n/d when d > 0, NaN when d = 0 *)
(*   k = "undef" undefined (an absent field)                                *)
(*   k = "null"  null                                                       *)
(*   k = "sym"   a Symbol or a BigInt: a value whose coercion to a number   *)
(*               throws a TypeError                                         *)
(* Finite numbers are exact rationals: the rounding of IEEE doubles is not  *)
(* modelled.  Angles in radians are carried as rational multiples of pi.    *)
(***************************************************************************)
EXTENDS Integers, Sequences, FiniteSets, TLC

VARIABLES params, pc, env, floors, tower, floorsRef, returned,
          savedStates, selectedStateIndex, dragIndex, ops, lastOp, lastArg, exportJob,
          input, output

\* the state of one buildTower call, of the App component around params, and of one
\* application of a function of tower.ts on its own
callVars == <<pc, env, floors, tower, floorsRef, returned>>
appVars == <<savedStates, selectedStateIndex, dragIndex, ops, lastOp, lastArg, exportJob>>
funVars == <<input, output>>
vars == <<params, pc, env, floors, tower, floorsRef, returned,
          savedStates, selectedStateIndex, dragIndex, ops, lastOp, lastArg, exportJob,
          input, output>>

(***************************************************************************)
(* Bounds of the model.                                                    *)
(***************************************************************************)
MaxFloors == 4
MaxPoints == 2
\* the number of completed calls a caller makes in a row
MaxCalls == 3
\* the number of UI operations in a row
MaxOps == 4
\* the longest curve the sampler is applied to on its own
MaxKnots == 3
\* the number of steps the ease is sampled at over [0, 1]
EaseSteps == 12

(***************************************************************************)
(* Numbers.                                                                *)
(***************************************************************************)
RECURSIVE GCD(_, _)
GCD(a, b) == IF b = 0 THEN a ELSE GCD(b, a % b)

AbsInt(x) == IF x < 0 THEN -x ELSE x

\* the finite number n/d (d # 0) in lowest terms with a positive denominator
Num(n, d) ==
    LET g == GCD(AbsInt(n), AbsInt(d))
        s == IF d < 0 THEN -1 ELSE 1
    IN  [k |-> "num", n |-> (s * n) \div g, d |-> (s * d) \div g]

Whole(n) == [k |-> "num", n |-> n, d |-> 1]

NaN == [k |-> "nan", n |-> 0, d |-> 0]
PosInf == [k |-> "inf", n |-> 1, d |-> 0]
NegInf == [k |-> "inf", n |-> -1, d |-> 0]
Undefined == [k |-> "undef", n |-> 0, d |-> 0]
SymbolValue == [k |-> "sym", n |-> 0, d |-> 0]
Null == [k |-> "null", n |-> 0, d |-> 0]
\* the string whose text is the decimal form of n/d
StrOf(n, d) == [k |-> "str", n |-> n, d |-> d]
\* a string that is no number
StrJunk == [k |-> "str", n |-> 0, d |-> 0]

IsNum(v) == v.k = "num"

\* typeof value === "number" && Number.isFinite(value)
IsFiniteNumber(v) == v.k = "num"

\* the numeric coercion of v throws a TypeError
CoercionThrows(v) == v.k = "sym"

\* Number(value): the numeric coercion of a string, and of the operands of Math.min / Math.max
\* (of a value whose coercion does not throw)
ToNumber(v) ==
    CASE v.k = "num" -> v
      [] v.k = "inf" -> v
      [] v.k = "str" -> IF v.d > 0 THEN Num(v.n, v.d) ELSE NaN
      [] v.k = "null" -> Whole(0)
      [] OTHER -> NaN

\* a + b, a - b, a * b, a / b on numbers; NaN when an operand is NaN
Add(a, b) ==
    IF IsNum(a) /\ IsNum(b)
    THEN LET g == GCD(a.d, b.d)
         IN  Num(a.n * (b.d \div g) + b.n * (a.d \div g), (a.d \div g) * b.d)
    ELSE NaN

Neg(a) == IF IsNum(a) THEN [k |-> "num", n |-> -a.n, d |-> a.d] ELSE NaN

Sub(a, b) == Add(a, Neg(b))

Mul(a, b) ==
    IF IsNum(a) /\ IsNum(b)
    THEN LET g1 == GCD(AbsInt(a.n), b.d)
             g2 == GCD(AbsInt(b.n), a.d)
         IN  [k |-> "num",
              n |-> (a.n \div g1) * (b.n \div g2),
              d |-> (a.d \div g2) * (b.d \div g1)]
    ELSE NaN

\* a / b for b # 0
Div(a, b) ==
    IF IsNum(a) /\ IsNum(b) /\ b.n # 0
    THEN Mul(a, Num(b.d, b.n))
    ELSE NaN

\* a < b: false when an operand is NaN
Lt(a, b) ==
    CASE IsNum(a) /\ IsNum(b) -> a.n * b.d < b.n * a.d
      [] a.k = "nan" \/ b.k = "nan" -> FALSE
      [] a.k = "inf" /\ b.k = "inf" -> a.n < b.n
      [] a.k = "inf" -> a.n < 0
      [] b.k = "inf" -> b.n > 0
      [] OTHER -> FALSE

Le(a, b) == Lt(a, b) \/ (a.k # "nan" /\ a = b)

\* Math.max(a, b), Math.min(a, b): operands coerced to numbers, NaN when either is NaN
MathMax(x, y) ==
    LET a == ToNumber(x)
        b == ToNumber(y)
    IN  IF a.k = "nan" \/ b.k = "nan" THEN NaN
        ELSE IF Lt(a, b) THEN b ELSE a

MathMin(x, y) ==
    LET a == ToNumber(x)
        b == ToNumber(y)
    IN  IF a.k = "nan" \/ b.k = "nan" THEN NaN
        ELSE IF Lt(b, a) THEN b ELSE a

\* Math.floor(a)
MathFloor(a) == IF IsNum(a) THEN Whole(a.n \div a.d) ELSE a

\* Math.abs(a)
MathAbs(a) == IF IsNum(a) THEN [k |-> "num", n |-> AbsInt(a.n), d |-> a.d] ELSE a

\* Math.round(a): the nearest integer, halves upwards
MathRound(a) == MathFloor(Add(a, Num(1, 2)))

(***************************************************************************)
(* Library functions buildTower calls.                                     *)
(***************************************************************************)
\* x mod 2 for a finite x, in [0, 2)
Mod2(x) == Sub(x, Mul(Whole(2), MathFloor(Div(x, Whole(2)))))

\* sin(pi * r) for 0 <= r <= 1, by Bhaskara's rational approximation (exact at 0, 1/6, 1/2, 5/6, 1)
SinHalfTurn(r) ==
    LET u == Mul(r, Sub(Whole(1), r))
    IN  Div(Mul(Whole(16), u), Sub(Whole(5), Mul(Whole(4), u)))

\* Math.sin(pi * q), to two decimals: a value in [-1, 1]
SinPi(q) ==
    LET r == Mod2(q)
        s == IF Le(r, Whole(1)) THEN SinHalfTurn(r) ELSE Neg(SinHalfTurn(Sub(r, Whole(1))))
    IN  IF IsNum(q) THEN Div(MathRound(Mul(Whole(100), s)), Whole(100)) ELSE NaN

\* Math.cos(pi * q)
CosPi(q) == SinPi(Add(q, Num(1, 2)))

\* MathUtils.degToRad(degrees) = degrees * (pi / 180), as a multiple of pi
degToRad(degrees) == Div(degrees, Whole(180))

\* a colour string: "#rrggbb" is [fmt |-> "hex"], "rgb(r,g,b)" is [fmt |-> "rgb"],
\* a string that names no colour is [fmt |-> "bad"]; r, g, b are the channels 0..255
HexColor(r, g, b) == [fmt |-> "hex", r |-> r, g |-> g, b |-> b]
BadColor == [fmt |-> "bad", r |-> 0, g |-> 0, b |-> 0]

\* new Color(style): the channels as fractions of 255; a string that names no colour
\* leaves the colour at its initial white
NewColor(style) ==
    IF style.fmt = "bad"
    THEN [r |-> Whole(1), g |-> Whole(1), b |-> Whole(1)]
    ELSE [r |-> Num(style.r, 255), g |-> Num(style.g, 255), b |-> Num(style.b, 255)]

\* color.clone().lerp(other, alpha): this.r += (other.r - this.r) * alpha, per channel
ColorLerp(c, other, alpha) ==
    [r |-> Add(c.r, Mul(Sub(other.r, c.r), alpha)),
     g |-> Add(c.g, Mul(Sub(other.g, c.g), alpha)),
     b |-> Add(c.b, Mul(Sub(other.b, c.b), alpha))]

\* color.getStyle(): "rgb(R,G,B)" with each channel Math.round(c * 255)
GetStyle(c) ==
    [fmt |-> "rgb",
     r |-> MathRound(Mul(c.r, Whole(255))).n,
     g |-> MathRound(Mul(c.g, Whole(255))).n,
     b |-> MathRound(Mul(c.b, Whole(255))).n]

(***************************************************************************)
(* src/lib/tower.ts                                                        *)
(***************************************************************************)
\* start + (end - start) * t
lerp(start, end, t) == Add(start, Mul(Sub(end, start), t))

\* easeInOut whose upper half is the lower half continued
easeInOut_NoMirror(t) == Mul(Mul(Whole(2), t), t)

\* t < 0.5 ? 2 * t * t : 1 - Math.pow(-2 * t + 2, 2) / 2
easeInOut(t) ==
    IF Lt(t, Num(1, 2))
    THEN Mul(Mul(Whole(2), t), t)
    ELSE LET u == Add(Mul(Whole(-2), t), Whole(2))
         IN  Sub(Whole(1), Div(Mul(u, u), Whole(2)))

\* toFiniteNumber without its string branch: a string is never parsed
toFiniteNumber_NoParse(value, fallback) == IF IsFiniteNumber(value) THEN value ELSE fallback

toFiniteNumber(value, fallback) ==
    IF IsFiniteNumber(value) THEN value
    ELSE IF value.k = "str" /\ IsFiniteNumber(ToNumber(value)) THEN ToNumber(value)
    ELSE fallback

\* an array value is [arr |-> TRUE, v |-> <<...>>]; anything that is no array is NotArray
ArrayOf(seq) == [arr |-> TRUE, v |-> seq]
NotArray == [arr |-> FALSE, v |-> <<>>]
\* the array [1]
UnitCurve == ArrayOf(<<Whole(1)>>)

\* RawPoints defaulting to [0] instead of [1]
RawPoints_WrongDefault(points) ==
    IF points.arr /\ Len(points.v) > 0 THEN points.v ELSE <<Whole(0)>>

\* Array.isArray(points) && points.length > 0 ? points : [1]
RawPoints(points) ==
    IF points.arr /\ Len(points.v) > 0 THEN points.v ELSE <<Whole(1)>>

\* Math.min(Math.max(v, lo), hi)
Clamp(v, lo, hi) == MathMin(MathMax(v, lo), hi)

\* raw.map((v) => Math.min(Math.max(v, lo), hi))
ClampPoints(raw, lo, hi) == [j \in 1..Len(raw) |-> Clamp(raw[j], lo, hi)]

\* Sampler that forgets to spread t over the n - 1 intervals
Sampler_Unscaled(points, t) ==
    IF Len(points) = 1 THEN points[1]
    ELSE LET clamped == Clamp(t, Whole(0), Whole(1))
             index == MathFloor(clamped)
             frac == Sub(clamped, index)
             a == points[index.n + 1]
             b == points[MathMin(Add(index, Whole(1)), Whole(Len(points) - 1)).n + 1]
         IN  lerp(a, b, frac)

\* profileSampler / floorProfileSampler over their (already clamped) control values
Sampler(points, t) ==
    IF Len(points) = 1 THEN points[1]
    ELSE LET clamped == Mul(Clamp(t, Whole(0), Whole(1)), Whole(Len(points) - 1))
             index == MathFloor(clamped)
             frac == Sub(clamped, index)
             a == points[index.n + 1]
             b == points[MathMin(Add(index, Whole(1)), Whole(Len(points) - 1)).n + 1]
         IN  lerp(a, b, frac)

\* FloorCountOf without the clamp to at least one floor
FloorCountOf_NoClamp(p) == MathFloor(toFiniteNumber(p.floorCount, Whole(1)))

\* Math.max(v, lo) of the two map callbacks throws on an entry of either array
MapThrows(p) ==
    \/ \E j \in 1..Len(RawPoints(p.profilePoints)) : CoercionThrows(RawPoints(p.profilePoints)[j])
    \/ \E j \in 1..Len(RawPoints(p.floorProfilePoints)) :
          CoercionThrows(RawPoints(p.floorProfilePoints)[j])

\* const floorCount = Math.max(1, Math.floor(rawFloorCount))
FloorCountOf(p) == MathMax(Whole(1), MathFloor(toFiniteNumber(p.floorCount, Whole(1))))

\* RangeLow that takes the field named min as the low end, unsorted
RangeLow_Unsorted(lo, hi, dlo, dhi) == toFiniteNumber(lo, dlo)

\* Math.min(rawMin, rawMax) and Math.max(rawMin, rawMax) of a sanitized range
RangeLow(lo, hi, dlo, dhi) == MathMin(toFiniteNumber(lo, dlo), toFiniteNumber(hi, dhi))

\* RangeHigh that takes the field named max as the high end, unsorted
RangeHigh_Unsorted(lo, hi, dlo, dhi) == toFiniteNumber(hi, dhi)

RangeHigh(lo, hi, dlo, dhi) == MathMax(toFiniteNumber(lo, dlo), toFiniteNumber(hi, dhi))

\* ProfilePointsOf with the upper clamp of the control values forgotten
ProfilePointsOf_NoUpper(p) ==
    LET raw == RawPoints(p.profilePoints)
    IN  [j \in 1..Len(raw) |-> MathMax(raw[j], Num(1, 4))]

\* the control values the profile sampler reads
ProfilePointsOf(p) == ClampPoints(RawPoints(p.profilePoints), Num(1, 4), Num(9, 4))

\* FloorProfilePointsOf with the lower clamp of the control values forgotten
FloorProfilePointsOf_NoLower(p) ==
    LET raw == RawPoints(p.floorProfilePoints)
    IN  [j \in 1..Len(raw) |-> MathMin(raw[j], Num(7, 5))]

\* the control values the floor profile sampler reads
FloorProfilePointsOf(p) == ClampPoints(RawPoints(p.floorProfilePoints), Num(3, 5), Num(7, 5))

\* YOffset placing the first slab's centre, not its lower face, at the bottom
YOffset_NoSlab(height, slabHeight) == Div(Neg(height), Whole(2))

\* SlabSidesOf without Math.floor
SlabSidesOf_NoFloor(p) == MathMin(MathMax(toFiniteNumber(p.slabSides, Whole(4)), Whole(3)), Whole(48))

\* const slabSides = Math.min(Math.max(Math.floor(rawSlabSides), 3), 48)
SlabSidesOf(p) == MathMin(MathMax(MathFloor(toFiniteNumber(p.slabSides, Whole(4))), Whole(3)), Whole(48))

\* const yOffset = -height / 2 + slabHeight / 2
YOffset(height, slabHeight) == Add(Div(Neg(height), Whole(2)), Div(slabHeight, Whole(2)))

\* the constants of buildTower's body, before its loop
Sanitize(p) ==
    LET floorCount == FloorCountOf(p)
        height == MathMax(Whole(1), toFiniteNumber(p.towerHeight, Whole(40)))
        baseRadius == MathMax(Num(1, 4), toFiniteNumber(p.baseRadius, Whole(4)))
        floorThickness == MathMin(MathMax(toFiniteNumber(p.floorThickness, Num(1, 2)), Num(1, 10)), Whole(1))
        slabSides == SlabSidesOf(p)
        floorHeight == Div(height, floorCount)
        slabHeight == Mul(floorHeight, floorThickness)
    IN  [floorCount |-> floorCount,
         height |-> height,
         baseRadius |-> baseRadius,
         floorThickness |-> floorThickness,
         slabSides |-> slabSides,
         scaleStart |-> RangeLow(p.scaleMin, p.scaleMax, Num(4, 5), Num(6, 5)),
         scaleEnd |-> RangeHigh(p.scaleMin, p.scaleMax, Num(4, 5), Num(6, 5)),
         twistStart |-> RangeLow(p.twistMin, p.twistMax, Whole(-10), Whole(120)),
         twistEnd |-> RangeHigh(p.twistMin, p.twistMax, Whole(-10), Whole(120)),
         floorHeight |-> floorHeight,
         slabHeight |-> slabHeight,
         startColor |-> NewColor(p.gradientStart),
         endColor |-> NewColor(p.gradientEnd),
         yOffset |-> YOffset(height, slabHeight),
         driftRadius |-> Mul(baseRadius, Num(1, 4)),
         profilePoints |-> ProfilePointsOf(p),
         floorProfilePoints |-> FloorProfilePointsOf(p)]

\* const ratio = floorCount === 1 ? 1 : i / (floorCount - 1)
Ratio(floorCount, i) ==
    IF floorCount = Whole(1) THEN Whole(1) ELSE Div(Whole(i), Sub(floorCount, Whole(1)))

\* Math.min(Math.max(lerp(scaleStart, scaleEnd, eased) * profileSampler(eased), 0.15), 3)
RadiusScale(e, eased) ==
    Clamp(Mul(lerp(e.scaleStart, e.scaleEnd, eased), Sampler(e.profilePoints, eased)), Num(3, 20), Whole(3))

\* Math.min(Math.max(floorProfileSampler(eased), 0.6), 1.4)
Aspect(e, eased) == Clamp(Sampler(e.floorProfilePoints, eased), Num(3, 5), Num(7, 5))

\* FloorColor with the two ends of the ramp exchanged
FloorColor_Reversed(e, ratio) == GetStyle(ColorLerp(e.endColor, e.startColor, ratio))

\* startColor.clone().lerp(endColor, ratio).getStyle()
FloorColor(e, ratio) == GetStyle(ColorLerp(e.startColor, e.endColor, ratio))

\* PositionY stepping by the slab height instead of the floor height
PositionY_SlabStep(e, i) == Add(e.yOffset, Mul(Whole(i), e.slabHeight))

\* PositionY that forgets the index
PositionY_NoIndex(e, i) == Add(e.yOffset, e.floorHeight)

\* yOffset + i * floorHeight
PositionY(e, i) == Add(e.yOffset, Mul(Whole(i), e.floorHeight))

\* radius * aspect
ScaleX(radius, aspect) == Mul(radius, aspect)

\* ScaleZ without the mirror of aspect: radius * aspect * (0.85 + |wobble| * 0.25)
ScaleZ_Symmetric(radius, aspect, wobble) ==
    Mul(Mul(radius, aspect), Add(Num(17, 20), Mul(MathAbs(wobble), Num(1, 4))))

\* radius * Math.max(0.5, 2 - aspect) * (0.85 + Math.abs(wobble) * 0.25)
ScaleZ(radius, aspect, wobble) ==
    Mul(Mul(radius, MathMax(Num(1, 2), Sub(Whole(2), aspect))),
        Add(Num(17, 20), Mul(MathAbs(wobble), Num(1, 4))))

\* the record the loop body pushes for index i
FloorAt(e, i) ==
    LET ratio == Ratio(e.floorCount, i)
        eased == easeInOut(ratio)
        rotation == degToRad(lerp(e.twistStart, e.twistEnd, eased))
        radiusScale == RadiusScale(e, eased)
        aspect == Aspect(e, eased)
        radius == Mul(e.baseRadius, radiusScale)
        wobble == SinPi(Mul(ratio, Whole(2)))
        wobble2 == CosPi(Add(Mul(ratio, Num(3, 2)), Num(1, 3)))
    IN  [index |-> i,
         positionY |-> PositionY(e, i),
         rotation |-> rotation,
         radius |-> radius,
         color |-> FloorColor(e, ratio),
         offsetX |-> Mul(Mul(CosPi(rotation), e.driftRadius), wobble),
         offsetZ |-> Mul(Mul(SinPi(rotation), e.driftRadius), wobble2),
         scaleX |-> ScaleX(radius, aspect),
         scaleZ |-> ScaleZ(radius, aspect, wobble),
         sides |-> e.slabSides]

\* return { floors, slabHeight, height, floorCount, baseRadius, slabSides }
TowerOf(e, fs) ==
    [floors |-> fs,
     slabHeight |-> e.slabHeight,
     height |-> e.height,
     floorCount |-> e.floorCount,
     baseRadius |-> e.baseRadius,
     slabSides |-> e.slabSides]

\* how often the loop for (let i = 0; i < floorCount; i += 1) runs its body
Iterations(floorCount) == IF Lt(Whole(0), floorCount) THEN -((-floorCount.n) \div floorCount.d) ELSE 0

\* buildTower(params) as a value: the tower one whole call returns, when it does not throw
buildTower(p) ==
    LET e == Sanitize(p)
    IN  TowerOf(e, [j \in 1..Iterations(e.floorCount) |-> FloorAt(e, j - 1)])

(***************************************************************************)
(* The parameter records buildTower is checked on.  Every family varies a   *)
(* group of fields over its whole set and holds the others at Plain.        *)
(***************************************************************************)
Black == HexColor(0, 0, 0)
White == HexColor(255, 255, 255)
Teal == HexColor(34, 174, 209)

Plain ==
    [floorCount |-> Whole(3),
     towerHeight |-> Whole(30),
     baseRadius |-> Whole(5),
     floorThickness |-> Whole(1),
     slabSides |-> Whole(4),
     scaleMin |-> Whole(1),
     scaleMax |-> Whole(1),
     twistMin |-> Whole(0),
     twistMax |-> Whole(0),
     gradientStart |-> Black,
     gradientEnd |-> White,
     profilePoints |-> ArrayOf(<<Whole(1)>>),
     floorProfilePoints |-> ArrayOf(<<Whole(1)>>)]

SeqsUpTo(S, n) == UNION {[1..m -> S] : m \in 0..n}

FloorCountInputs ==
    {Undefined, NaN, PosInf, StrOf(3, 1), StrJunk, Whole(0), Whole(-2), Num(5, 2)}
        \cup {Whole(n) : n \in 1..MaxFloors}
SomeFloorCounts == {Whole(1), Whole(2), Whole(3), Whole(MaxFloors)}
HeightInputs == {NaN, Whole(0), Whole(30), StrOf(20, 1)}
ThicknessInputs == {Undefined, Num(1, 20), Num(13, 20), Whole(1), Whole(3)}
SidesInputs == {Undefined, Whole(2), Num(9, 2), Whole(100)}
RadiusInputs == {NegInf, Whole(0), Whole(5)}
ScaleInputs == {NaN, Whole(-1), Whole(0), Whole(2), StrOf(3, 2)}
TwistInputs == {NaN, Whole(-90), Whole(0), Whole(180), StrOf(45, 1)}
ColorInputs == {Black, Teal, BadColor}
ProfileValues == {NaN, Whole(0), Whole(1), Whole(3)}
FloorProfileValues == {Undefined, Whole(0), Whole(1), Num(14, 5)}
ProfileInputs == {NotArray} \cup {ArrayOf(v) : v \in SeqsUpTo(ProfileValues, MaxPoints)}
FloorProfileInputs == {NotArray} \cup {ArrayOf(v) : v \in SeqsUpTo(FloorProfileValues, MaxPoints)}

LayoutInputs ==
    {[Plain EXCEPT !.floorCount = fc, !.towerHeight = h, !.floorThickness = th] :
        fc \in FloorCountInputs, h \in HeightInputs, th \in ThicknessInputs}

SidesRadiusInputs ==
    {[Plain EXCEPT !.floorCount = fc, !.slabSides = sd, !.baseRadius = br] :
        fc \in {Whole(1), Whole(2)}, sd \in SidesInputs, br \in RadiusInputs}

ShapeInputs ==
    {[Plain EXCEPT !.floorCount = fc, !.scaleMin = lo, !.scaleMax = hi, !.profilePoints = pp] :
        fc \in SomeFloorCounts \ {Whole(2)}, lo \in ScaleInputs, hi \in ScaleInputs,
        pp \in ProfileInputs}

AspectInputs ==
    {[Plain EXCEPT !.floorCount = fc, !.floorProfilePoints = fp, !.profilePoints = pp,
                   !.scaleMax = hi] :
        fc \in SomeFloorCounts \ {Whole(2)}, fp \in FloorProfileInputs,
        pp \in {ArrayOf(<<Whole(1)>>), ArrayOf(<<NaN>>)}, hi \in {Whole(1), Whole(2)}}

TwistColorInputs ==
    {[Plain EXCEPT !.floorCount = fc, !.twistMin = lo, !.twistMax = hi,
                   !.gradientStart = cs, !.gradientEnd = ce] :
        fc \in SomeFloorCounts, lo \in TwistInputs, hi \in TwistInputs,
        cs \in ColorInputs, ce \in ColorInputs}

\* records holding a Symbol or BigInt, as a field or as an entry of a control curve
WrongTypeCurves == {UnitCurve, ArrayOf(<<SymbolValue>>), ArrayOf(<<Whole(1), SymbolValue>>)}
WrongTypeInputs ==
    {[Plain EXCEPT !.floorCount = fc, !.baseRadius = br, !.profilePoints = pp,
                   !.floorProfilePoints = fp] :
        fc \in {Whole(2), SymbolValue}, br \in {Whole(5), SymbolValue},
        pp \in WrongTypeCurves, fp \in WrongTypeCurves}

Inputs ==
    LayoutInputs \cup SidesRadiusInputs \cup ShapeInputs \cup AspectInputs \cup TwistColorInputs
        \cup WrongTypeInputs

(***************************************************************************)
(* One call of buildTower, a step at a time.                               *)
(***************************************************************************)
\* line 69: const floors = [] is a new empty array on every call; arrays are told apart by a
\* reference, and the n arrays handed out so far carry the references 1..n
NewFloors_Reused(oldRef, oldFloors, n) == [ref |-> oldRef, v |-> oldFloors]
NewFloors(oldRef, oldFloors, n) == [ref |-> n + 1, v |-> <<>>]

\* floors.push acts on the array itself: a result holding the same array sees the new floor
Pushed(result, ref, newFloors) ==
    IF result.ref = ref THEN [result EXCEPT !.tower.floors = newFloors] ELSE result

NoEnv == [floorCount |-> Whole(0)]
\* no function applied on its own
NoFun ==
    /\ input = [fn |-> "none"]
    /\ output = <<>>
\* no App component: nothing saved, nothing selected, no operation made
NoDrag == [profilePoints |-> Null, floorProfilePoints |-> Null]
\* the last operation was given nothing
NoArg == [key |-> "none"]
\* no export started: no file written through the picker, no download link clicked, no
\* object URL created
NoExport == [pc |-> "idle", blob |-> Null, started |-> 0, files |-> 0, clicks |-> 0,
             urls |-> 0, revoked |-> 0]
NoApp ==
    /\ exportJob = NoExport
    /\ savedStates = <<>>
    /\ selectedStateIndex = Null
    /\ dragIndex = NoDrag
    /\ ops = 0
    /\ lastOp = "none"
    /\ lastArg = NoArg
NoTower == [floors |-> <<>>]

Init ==
    /\ params \in Inputs
    /\ pc = "start"
    /\ env = NoEnv
    /\ floors = <<>>
    /\ tower = NoTower
    /\ floorsRef = 0
    /\ returned = <<>>
    /\ NoApp
    /\ NoFun

\* lines 17-69: the sanitized constants, the samplers and the empty floors list
Begin ==
    /\ pc = "start"
    /\ ~MapThrows(params)
    /\ env' = Sanitize(params)
    /\ floorsRef' = NewFloors(floorsRef, floors, Len(returned)).ref
    /\ floors' = NewFloors(floorsRef, floors, Len(returned)).v
    /\ pc' = "loop"
    /\ UNCHANGED <<params, tower, returned>>
    /\ UNCHANGED <<appVars, funVars>>

\* lines 71-99: one iteration of the loop
PushFloor ==
    /\ pc = "loop"
    /\ Lt(Whole(Len(floors)), env.floorCount)
    /\ floors' = Append(floors, FloorAt(env, Len(floors)))
    /\ returned' = [i \in 1..Len(returned) |-> Pushed(returned[i], floorsRef, floors')]
    /\ UNCHANGED <<params, pc, env, tower, floorsRef>>
    /\ UNCHANGED <<appVars, funVars>>

\* line 101: the loop has ended and the tower is returned
Return ==
    /\ pc = "loop"
    /\ ~Lt(Whole(Len(floors)), env.floorCount)
    /\ tower' = TowerOf(env, floors)
    /\ returned' = Append(returned, [params |-> params, ref |-> floorsRef, tower |-> tower'])
    /\ pc' = "done"
    /\ UNCHANGED <<params, env, floors, floorsRef>>
    /\ UNCHANGED <<appVars, funVars>>

\* lines 48-49: a map callback throws and the call ends without a tower
Throw ==
    /\ pc = "start"
    /\ MapThrows(params)
    /\ pc' = "threw"
    /\ UNCHANGED <<params, env, floors, tower, floorsRef, returned>>
    /\ UNCHANGED <<appVars, funVars>>

Next == Begin \/ PushFloor \/ Return \/ Throw

Spec == Init /\ [][Next]_vars

\* A caller that calls buildTower again and again, TowerScene.tsx's useMemo(() => buildTower(params), [params]):
\* the records it passes, and the next call once the last one has returned or thrown
CallInputs ==
    {[Plain EXCEPT !.floorCount = fc] : fc \in {Whole(1), Whole(2), Whole(3)}}
        \cup {[Plain EXCEPT !.floorCount = Whole(2), !.profilePoints = pp] :
                 pp \in {ArrayOf(<<Num(5, 4), Num(3, 4)>>), ArrayOf(<<SymbolValue>>)}}

InitCalls ==
    /\ params \in CallInputs
    /\ pc = "start"
    /\ env = NoEnv
    /\ floors = <<>>
    /\ tower = NoTower
    /\ floorsRef = 0
    /\ returned = <<>>
    /\ NoApp
    /\ NoFun

CallAgain ==
    /\ pc \in {"done", "threw"}
    /\ Len(returned) < MaxCalls
    /\ params' \in CallInputs
    /\ pc' = "start"
    /\ UNCHANGED <<env, floors, tower, floorsRef, returned>>
    /\ UNCHANGED <<appVars, funVars>>

NextCalls == Begin \/ PushFloor \/ Return \/ Throw \/ CallAgain

SpecCalls == InitCalls /\ [][NextCalls]_vars

(***************************************************************************)
(* App.tsx: the parameters the sidebar edits, the saved states and the     *)
(* handlers.  Every handler is one UI operation; React renders between two *)
(* operations, so a handler sees the state the last one left.              *)
(***************************************************************************)
defaultParams ==
    [floorCount |-> Whole(32),
     towerHeight |-> Whole(80),
     baseRadius |-> Whole(6),
     twistMin |-> Whole(-20),
     twistMax |-> Whole(120),
     scaleMin |-> Num(7, 10),
     scaleMax |-> Num(7, 5),
     floorThickness |-> Num(13, 20),
     slabSides |-> Whole(4),
     gradientStart |-> HexColor(34, 174, 209),
     gradientEnd |-> HexColor(242, 100, 25),
     animate |-> TRUE,
     animationSpeed |-> Num(5, 2),
     profilePoints |-> ArrayOf(<<Num(21, 20), Num(11, 10), Num(23, 25), Num(6, 5), Whole(1)>>),
     floorProfilePoints |-> ArrayOf(<<Whole(1), Num(9, 10), Num(11, 10), Whole(1)>>),
     lighting |-> "neutral"]

\* const clamp = (val, min, max) => Math.min(Math.max(val, min), max)
clamp(val, min, max) == MathMin(MathMax(val, min), max)

\* the range inputs of the sidebar: the key each one edits and the range its handler is given
Sliders ==
    {[key |-> "floorCount", min |-> Whole(3), max |-> Whole(120)],
     [key |-> "towerHeight", min |-> Whole(20), max |-> Whole(220)],
     [key |-> "baseRadius", min |-> Whole(2), max |-> Whole(15)],
     [key |-> "floorThickness", min |-> Num(1, 5), max |-> Whole(1)],
     [key |-> "slabSides", min |-> Whole(3), max |-> Whole(24)],
     [key |-> "twistMin", min |-> Whole(-180), max |-> Whole(0)],
     [key |-> "twistMax", min |-> Whole(0), max |-> Whole(360)],
     [key |-> "scaleMin", min |-> Num(1, 4), max |-> Num(3, 2)],
     [key |-> "scaleMax", min |-> Num(1, 4), max |-> Num(5, 2)],
     [key |-> "animationSpeed", min |-> Num(1, 10), max |-> Whole(4)]}

\* NumberEdit without the clamp to the slider's range
NumberEdit_NoClamp(p, key, min, max, text) ==
    LET next == ToNumber(text)
    IN  [p EXCEPT ![key] = IF IsFiniteNumber(next) THEN next ELSE min]

\* the params handleNumber(key, min, max) sets for the text of the changed input
NumberEdit(p, key, min, max, text) ==
    LET next == ToNumber(text)
    IN  [p EXCEPT ![key] = clamp(IF IsFiniteNumber(next) THEN next ELSE min, min, max)]

\* current[i] ?? fallback, for a 0-based index inside the array
OrElse(v, fallback) == IF v.k \in {"null", "undef"} THEN fallback ELSE v

\* resamplePoints that spreads the new points over one interval too many and so never
\* reaches the last control value
resamplePoints_ShortOfEnd(current, count) ==
    IF Len(current) = 0
    THEN [i \in 1..(IF IsNum(count) THEN count.n ELSE 0) |-> Whole(1)]
    ELSE IF count = Whole(Len(current)) THEN current
    ELSE [i \in 1..(IF IsNum(count) THEN count.n ELSE 0) |->
            LET t == Mul(Div(Whole(i - 1), count), Whole(Len(current) - 1))
                base == MathFloor(t)
                frac == Sub(t, base)
                upper == IF base.n + 1 < Len(current) - 1 THEN base.n + 1 ELSE Len(current) - 1
                a == OrElse(current[base.n + 1], Whole(1))
                b == OrElse(current[upper + 1], a)
            IN  Add(a, Mul(Sub(b, a), frac))]

\* resamplePoints(current, count), count being a number or NaN
resamplePoints(current, count) ==
    IF Len(current) = 0
    THEN [i \in 1..(IF IsNum(count) THEN count.n ELSE 0) |-> Whole(1)]
    ELSE IF count = Whole(Len(current)) THEN current
    ELSE [i \in 1..(IF IsNum(count) THEN count.n ELSE 0) |->
            LET t == Mul(Div(Whole(i - 1), Sub(count, Whole(1))), Whole(Len(current) - 1))
                base == MathFloor(t)
                frac == Sub(t, base)
                upper == IF base.n + 1 < Len(current) - 1 THEN base.n + 1 ELSE Len(current) - 1
                a == OrElse(current[base.n + 1], Whole(1))
                b == OrElse(current[upper + 1], a)
            IN  Add(a, Mul(Sub(b, a), frac))]

\* the array handleProfileHandleCount / handleFloorProfileHandleCount put in place of points
\* (p.profilePoints || [] is the array itself: params always holds one)
HandleCount(points, nextCount) ==
    ArrayOf(resamplePoints(points.v, clamp(MathRound(nextCount), Whole(2), Whole(8))))

\* ProfileMapper's handlePointChange(index): a copy with one entry replaced (0-based index)
PointChange(points, index, text, min, max) ==
    ArrayOf([points.v EXCEPT ![index + 1] = clamp(ToNumber(text), min, max)])

\* next[idx] = value on a copy of the array (0-based idx): an index past the end lengthens the
\* copy and leaves holes, which read as undefined, before it
ArrayWrite(seq, idx, value) ==
    [i \in 1..(IF idx + 1 > Len(seq) THEN idx + 1 ELSE Len(seq)) |->
        IF i = idx + 1 THEN value ELSE IF i <= Len(seq) THEN seq[i] ELSE Undefined]

\* valueFromClientY, rel being (clientY - rect.top) / rect.height of the chart
valueFromClientY(rel, min, max) ==
    Add(min, Mul(clamp(Sub(Whole(1), rel), Whole(0), Whole(1)), Sub(max, min)))

\* nearestIndexFromClientX over n points, x being the pointer's abscissa in chart units
\* (0..240): the first index at the least distance
nearestIndexFromClientX(n, x) ==
    IF n = 1 THEN 0
    ELSE LET dist(i) == MathAbs(Sub(Mul(Whole(i), Div(Whole(240), Whole(n - 1))), x))
         IN  CHOOSE best \in 0..(n - 1) :
                 \A i \in 0..(n - 1) : Lt(dist(best), dist(i)) \/ (dist(best) = dist(i) /\ best <= i)

\* updateFromPointer(idx, clientY): a copy with the entry at idx set to the pointer's value
PointerUpdate(points, idx, rel, min, max) ==
    ArrayOf(ArrayWrite(points.v, idx, clamp(valueFromClientY(rel, min, max), min, max)))

\* the two ProfileMapper instances: the curve each edits and its value range
Mappers ==
    {[key |-> "profilePoints", min |-> Num(2, 5), max |-> Num(9, 5)],
     [key |-> "floorProfilePoints", min |-> Num(3, 5), max |-> Num(7, 5)]}

\* randomInt and randomBetween of handleRandomize, u being what Math.random() returned
randomInt(min, max, u) == Add(MathFloor(Mul(u, Whole(max - min + 1))), Whole(min))
randomBetween(min, max, step, u) ==
    Mul(MathRound(Div(Add(Mul(u, Sub(max, min)), min), step)), step)
randomColor(u) ==
    LET v == MathFloor(Mul(u, Whole(16777215))).n
    IN  HexColor(v \div 65536, (v \div 256) % 256, v % 256)
LightingModes ==
    <<"neutral", "warm", "cool", "contrast", "soft", "shaded", "wireframe", "technical",
      "ghosted", "outline">>

\* the record handleRandomize sets when every Math.random() call returns u
Randomized(u) ==
    LET scaleMin == randomBetween(Num(3, 10), Num(6, 5), Num(1, 20), u)
        scaleMax == randomBetween(Add(scaleMin, Num(1, 10)), Num(21, 10), Num(1, 20), u)
        profileCount == randomInt(3, 6, u).n
        floorProfileCount == randomInt(3, 6, u).n
    IN  [floorCount |-> randomInt(18, 100, u),
         towerHeight |-> randomInt(40, 180, u),
         baseRadius |-> randomBetween(Whole(3), Whole(12), Num(1, 10), u),
         floorThickness |-> randomBetween(Num(3, 10), Num(17, 20), Num(1, 20), u),
         twistMin |-> randomInt(-120, 0, u),
         twistMax |-> randomInt(45, 330, u),
         scaleMin |-> scaleMin,
         scaleMax |-> scaleMax,
         slabSides |-> randomInt(3, 18, u),
         gradientStart |-> randomColor(u),
         gradientEnd |-> randomColor(u),
         animate |-> Lt(Num(3, 10), u),
         animationSpeed |-> randomBetween(Num(1, 2), Num(7, 2), Num(1, 10), u),
         profilePoints |->
             ArrayOf([i \in 1..profileCount |->
                        randomBetween(Num(13, 20), Num(29, 20), Num(1, 20), u)]),
         floorProfilePoints |->
             ArrayOf([i \in 1..floorProfileCount |->
                        randomBetween(Num(7, 10), Num(13, 10), Num(1, 20), u)]),
         lighting |-> LightingModes[randomInt(0, 9, u).n + 1]]

\* JSON.parse(JSON.stringify(value)) of one number-like value: a finite number and a string
\* come back as they were, NaN, an infinity and an array hole as null
JsonValue(v) == IF v.k \in {"num", "str"} THEN v ELSE Null
\* ... and of a parameter record: booleans and strings are kept, arrays are rebuilt
JsonCopy(p) ==
    [p EXCEPT !.floorCount = JsonValue(@), !.towerHeight = JsonValue(@),
              !.baseRadius = JsonValue(@), !.twistMin = JsonValue(@),
              !.twistMax = JsonValue(@), !.scaleMin = JsonValue(@),
              !.scaleMax = JsonValue(@), !.floorThickness = JsonValue(@),
              !.slabSides = JsonValue(@), !.animationSpeed = JsonValue(@),
              !.profilePoints = ArrayOf([i \in 1..Len(@.v) |-> JsonValue(@.v[i])]),
              !.floorProfilePoints = ArrayOf([i \in 1..Len(@.v) |-> JsonValue(@.v[i])])]

\* savedStates[idx] is an entry: idx is a whole number inside the list
HasEntry(saved, idx) == IsNum(idx) /\ idx.d = 1 /\ idx.n >= 0 /\ idx.n < Len(saved)

\* what the operations of one run are given
SliderInputs ==
    {[key |-> "floorCount", text |-> StrOf(500, 1)],
     [key |-> "scaleMin", text |-> StrJunk],
     [key |-> "twistMin", text |-> StrOf(-90, 1)]}
PointInputs ==
    {[key |-> "profilePoints", index |-> 0, text |-> StrOf(3, 2)],
     [key |-> "floorProfilePoints", index |-> 3, text |-> StrOf(2, 1)]}
CountInputs == {StrOf(2, 1), StrOf(3, 1)}
RandomDraws == {Whole(0), Num(19, 20)}
LoadInputs == {Whole(0), Whole(1), NaN}
\* the records handleRandomize can set, by what Math.random() returned
RandomizedParams == [u \in RandomDraws |-> Randomized(u)]
DownInputs ==
    {[key |-> "profilePoints", x |-> Whole(240), rel |-> Num(1, 4)],
     [key |-> "floorProfilePoints", x |-> Whole(0), rel |-> Num(1, 2)]}
MoveInputs == {Num(3, 4)}

\* one more operation has been made
Op(name) ==
    /\ ops < MaxOps
    /\ ops' = ops + 1
    /\ lastOp' = name
    /\ UNCHANGED <<callVars, funVars, exportJob>>

\* ... by a handler of App given arg, which no ProfileMapper's drag state depends on
HandlerOf(name, arg) == Op(name) /\ lastArg' = arg /\ UNCHANGED dragIndex
Handler(name) == HandlerOf(name, NoArg)

handleNumber ==
    \E s \in Sliders, i \in SliderInputs :
        /\ s.key = i.key
        /\ HandlerOf("number", i)
        /\ params' = NumberEdit(params, s.key, s.min, s.max, i.text)
        /\ UNCHANGED <<savedStates, selectedStateIndex>>

handleColor ==
    /\ Handler("color")
    /\ params' = [params EXCEPT !.gradientStart = Black]
    /\ UNCHANGED <<savedStates, selectedStateIndex>>

handleCheckbox ==
    /\ Handler("checkbox")
    /\ params' = [params EXCEPT !.animate = FALSE]
    /\ UNCHANGED <<savedStates, selectedStateIndex>>

handleSelect ==
    /\ Handler("select")
    /\ params' = [params EXCEPT !.lighting = "wireframe"]
    /\ UNCHANGED <<savedStates, selectedStateIndex>>

\* handleProfilePoints / handleFloorProfilePoints, called by a ProfileMapper point edit
handleProfilePoints ==
    \E m \in Mappers, i \in PointInputs :
        /\ m.key = i.key
        /\ i.index < Len(params[m.key].v)
        /\ HandlerOf("points", i)
        /\ params' = [params EXCEPT ![m.key] = PointChange(@, i.index, i.text, m.min, m.max)]
        /\ UNCHANGED <<savedStates, selectedStateIndex>>

handleProfileHandleCount ==
    \E text \in CountInputs :
        /\ HandlerOf("count", [key |-> "profilePoints", text |-> text])
        /\ params' = [params EXCEPT !.profilePoints = HandleCount(@, ToNumber(text))]
        /\ UNCHANGED <<savedStates, selectedStateIndex>>

handleFloorProfileHandleCount ==
    \E text \in CountInputs :
        /\ HandlerOf("count", [key |-> "floorProfilePoints", text |-> text])
        /\ params' = [params EXCEPT !.floorProfilePoints = HandleCount(@, ToNumber(text))]
        /\ UNCHANGED <<savedStates, selectedStateIndex>>

handleReset_KeepsCurves ==
    /\ Handler("reset")
    /\ params' = [defaultParams EXCEPT !.profilePoints = params.profilePoints]
    /\ UNCHANGED <<savedStates, selectedStateIndex>>

\* setParams({ ...defaultParams })
handleReset ==
    /\ Handler("reset")
    /\ params' = defaultParams
    /\ UNCHANGED <<savedStates, selectedStateIndex>>

handleRandomize ==
    \E u \in RandomDraws :
        /\ Handler("randomize")
        /\ params' = RandomizedParams[u]
        /\ UNCHANGED <<savedStates, selectedStateIndex>>

handleSaveState ==
    /\ Handler("save")
    /\ savedStates' = Append(savedStates, JsonCopy(params))
    /\ selectedStateIndex' = Whole(Len(savedStates') - 1)
    /\ UNCHANGED params

\* handleLoadState without its early return: the index is selected whatever it is
handleLoadState_Unchecked ==
    \E idx \in LoadInputs :
        /\ HandlerOf("load", [key |-> "savedStates", idx |-> idx])
        /\ params' = IF HasEntry(savedStates, idx) THEN savedStates[idx.n + 1] ELSE params
        /\ selectedStateIndex' = idx
        /\ UNCHANGED savedStates

\* a load of an index with no entry returns at once
handleLoadState ==
    \E idx \in LoadInputs :
        /\ HandlerOf("load", [key |-> "savedStates", idx |-> idx])
        /\ IF HasEntry(savedStates, idx)
           THEN /\ params' = savedStates[idx.n + 1]
                /\ selectedStateIndex' = idx
           ELSE UNCHANGED <<params, selectedStateIndex>>
        /\ UNCHANGED savedStates

\* ProfileMapper's onPointerDown: the nearest handle starts being dragged and takes the
\* pointer's value
onPointerDown ==
    \E m \in Mappers, i \in DownInputs :
        /\ m.key = i.key
        /\ Len(params[m.key].v) > 0
        /\ Op("down")
        /\ LET idx == nearestIndexFromClientX(Len(params[m.key].v), i.x)
           IN  /\ dragIndex' = [dragIndex EXCEPT ![m.key] = Whole(idx)]
               /\ lastArg' = [key |-> m.key, index |-> idx, rel |-> i.rel]
               /\ params' = [params EXCEPT ![m.key] = PointerUpdate(@, idx, i.rel, m.min, m.max)]
        /\ UNCHANGED <<savedStates, selectedStateIndex>>

\* the window's pointermove listener of every ProfileMapper that has a dragIndex
handleMove ==
    \E rel \in MoveInputs :
        /\ dragIndex # NoDrag
        /\ Op("move")
        /\ lastArg' = [key |-> "window", rel |-> rel]
        /\ params' =
             [k \in DOMAIN params |->
                IF k \in DOMAIN dragIndex /\ dragIndex[k] # Null
                THEN LET m == CHOOSE mm \in Mappers : mm.key = k
                     IN  PointerUpdate(params[k], dragIndex[k].n, rel, m.min, m.max)
                ELSE params[k]]
        /\ UNCHANGED <<savedStates, selectedStateIndex, dragIndex>>

\* the window's pointerup listener: setDragIndex(null)
handleUp ==
    /\ dragIndex # NoDrag
    /\ Op("up")
    /\ lastArg' = NoArg
    /\ dragIndex' = NoDrag
    /\ UNCHANGED <<params, savedStates, selectedStateIndex>>

InitApp ==
    /\ params = defaultParams
    /\ pc = "ui"
    /\ env = NoEnv
    /\ floors = <<>>
    /\ tower = NoTower
    /\ floorsRef = 0
    /\ returned = <<>>
    /\ NoApp
    /\ NoFun

NextApp ==
    \/ handleNumber
    \/ handleColor
    \/ handleCheckbox
    \/ handleSelect
    \/ handleProfilePoints
    \/ handleProfileHandleCount
    \/ handleFloorProfileHandleCount
    \/ handleReset
    \/ handleRandomize
    \/ handleSaveState
    \/ handleLoadState
    \/ onPointerDown
    \/ handleMove
    \/ handleUp

SpecApp == InitApp /\ [][NextApp]_vars

(***************************************************************************)
(* handleExportOBJ of App.  The handler is asynchronous: it runs up to the *)
(* first pending promise of the save-file picker, and each later step runs *)
(* when that promise settles.  Other handlers run in between.              *)
(***************************************************************************)
\* window.showSaveFilePicker: not a property of window, a property without a value, a function
Pickers == {"absent", "undefined", "function"}
\* the promises awaited by saveWithPicker, in order
PickerSteps == <<"picker", "createWritable", "write", "close">>
StepAfter(step) ==
    PickerSteps[(CHOOSE i \in 1..Len(PickerSteps) : PickerSteps[i] = step) + 1]

\* lines 267-275: the download link is clicked on a new object URL, whose revocation is
\* scheduled
Download(job) ==
    [job EXCEPT !.pc = "idle", !.clicks = @ + 1, !.urls = @ + 1]
\* lines 264-275 with the early return left out
AfterPicker_NoReturn(job, saved) ==
    IF saved THEN Download([job EXCEPT !.files = @ + 1]) ELSE Download(job)
\* lines 257 and 264-275: the picker path has written the file and the handler returns, or the
\* handler falls back to the download
AfterPicker(job, saved) ==
    IF saved THEN [job EXCEPT !.pc = "idle", !.files = @ + 1] ELSE Download(job)

\* lines 186-240: the OBJ text of the tower of the current params, then saveWithPicker up to
\* its first await (or up to its return of false and the download)
handleExportOBJ ==
    \E picker \in Pickers :
        /\ exportJob.pc = "idle"
        /\ ops < MaxOps
        /\ ops' = ops + 1
        /\ lastOp' = "export"
        /\ lastArg' = [key |-> "showSaveFilePicker", picker |-> picker]
        /\ LET job == [exportJob EXCEPT !.started = @ + 1,
                                        !.blob = TowerOf(Sanitize(params), <<>>).floorCount]
           IN exportJob' = IF picker = "function"
                               THEN [job EXCEPT !.pc = "picker"]
                               ELSE AfterPicker(job, FALSE)
        /\ UNCHANGED <<params, callVars, funVars, savedStates, selectedStateIndex, dragIndex>>

\* lines 240-261: the awaited promise is fulfilled or rejected (the user cancels the picker,
\* the file cannot be written)
pickerSettles ==
    \E ok \in BOOLEAN :
        /\ exportJob.pc \notin {"idle"}
        /\ lastOp' = "settle"
        /\ lastArg' = [key |-> exportJob.pc, ok |-> ok]
        /\ exportJob' = IF ~ok THEN AfterPicker(exportJob, FALSE)
                        ELSE IF exportJob.pc = "close" THEN AfterPicker(exportJob, TRUE)
                        ELSE [exportJob EXCEPT !.pc = StepAfter(@)]
        /\ UNCHANGED <<params, callVars, funVars, savedStates, selectedStateIndex, dragIndex,
                       ops>>

\* line 275: the timer of one download fires
revokeObjectURL ==
    /\ exportJob.revoked < exportJob.urls
    /\ lastOp' = "revoke"
    /\ lastArg' = NoArg
    /\ exportJob' = [exportJob EXCEPT !.revoked = @ + 1]
    /\ UNCHANGED <<params, callVars, funVars, savedStates, selectedStateIndex, dragIndex, ops>>

InitExport == InitApp

NextExport ==
    \/ handleExportOBJ
    \/ pickerSettles
    \/ revokeObjectURL
    \/ handleRandomize
    \/ handleSaveState
    \/ handleReset

\* a timer that is due fires
SpecExport == InitExport /\ [][NextExport]_vars /\ WF_vars(revokeObjectURL)

(***************************************************************************)
(* The functions of tower.ts applied on their own: one application of the  *)
(* curve sampler, of easeInOut (at two arguments) or of the X/Z scale      *)
(* policy of the loop body (at two aspects).                               *)
(***************************************************************************)
\* control values as the sampler meets them, after the clamp of line 48
ControlValues == {Num(1, 4), Whole(1), Num(9, 4)}
SampleTimes ==
    {Num(-1, 2), Whole(0), Num(1, 6), Num(1, 4), Num(1, 3), Num(1, 2), Num(2, 3), Num(3, 4),
     Num(5, 6), Whole(1), Num(3, 2)}
SamplerInputs ==
    {[fn |-> "sampler", points |-> pts, t |-> t] :
        pts \in SeqsUpTo(ControlValues, MaxKnots) \ {<<>>}, t \in SampleTimes}

\* the floor ratios i / (floorCount - 1) of a tower of EaseSteps + 1 floors
EaseTimes == {Ratio(Whole(EaseSteps + 1), i) : i \in 0..EaseSteps}
EaseInputs == {[fn |-> "ease", s |-> s, t |-> t] : s \in EaseTimes, t \in EaseTimes}

\* radii from baseRadius * radiusScale, wobbles from the sine, aspects from the clamp of line 76
PolicyRadii == {Num(3, 200), Whole(1), Whole(5)}
PolicyWobbles == {Whole(-1), Num(-1, 2), Whole(0), Num(1, 2), Whole(1)}
PolicyAspects == {Num(3, 5), Num(4, 5), Whole(1), Num(6, 5), Num(7, 5)}
PolicyInputs ==
    {[fn |-> "policy", radius |-> r, wobble |-> w, a1 |-> a1, a2 |-> a2] :
        r \in PolicyRadii, w \in PolicyWobbles, a1 \in PolicyAspects, a2 \in PolicyAspects}

InitPure ==
    /\ params = Plain
    /\ pc = "pure"
    /\ env = NoEnv
    /\ floors = <<>>
    /\ tower = NoTower
    /\ floorsRef = 0
    /\ returned = <<>>
    /\ NoApp
    /\ input \in SamplerInputs \cup EaseInputs \cup PolicyInputs
    /\ output = <<>>

ApplySampler ==
    /\ input.fn = "sampler"
    /\ output = <<>>
    /\ output' = <<Sampler(input.points, input.t)>>
    /\ UNCHANGED <<params, callVars, appVars, input>>

ApplyEase ==
    /\ input.fn = "ease"
    /\ output = <<>>
    /\ output' = <<easeInOut(input.s), easeInOut(input.t)>>
    /\ UNCHANGED <<params, callVars, appVars, input>>

ApplyPolicy ==
    /\ input.fn = "policy"
    /\ output = <<>>
    /\ output' = <<ScaleX(input.radius, input.a1), ScaleX(input.radius, input.a2),
                   ScaleZ(input.radius, input.a1, input.wobble),
                   ScaleZ(input.radius, input.a2, input.wobble)>>
    /\ UNCHANGED <<params, callVars, appVars, input>>

NextPure == ApplySampler \/ ApplyEase \/ ApplyPolicy

SpecPure == InitPure /\ [][NextPure]_vars

(***************************************************************************)
(* Claims.                                                                 *)
(***************************************************************************)
Done == pc = "done"
Count == Len(tower.floors)
First == tower.floors[1]
Last == tower.floors[Count]
Half(x) == Div(x, Whole(2))

\* the sanitized floorCount: the field as a finite number, or its default 1
SanitizedFloorCount == toFiniteNumber(params.floorCount, Whole(1))

\* C1: the returned floors list has max(1, floor(floorCount)) entries for the sanitized
\* floorCount, tower.floorCount is that length, and the floor at position i has index i
\* (also while the list is being built)
C1_FloorsLength ==
    /\ \A j \in 1..Len(floors) : floors[j].index = j - 1
    /\ Done =>
        /\ Count = (IF SanitizedFloorCount.n \div SanitizedFloorCount.d < 1
                    THEN 1 ELSE SanitizedFloorCount.n \div SanitizedFloorCount.d)
        /\ tower.floorCount = Whole(Count)
        /\ \A j \in 1..Count : tower.floors[j].index = j - 1

\* a fractional floorCount 2.5 has given two floors
C1_Witness == Done /\ params.floorCount = Num(5, 2) /\ Count = 2

\* C2: positionY is strictly increasing with the index
C2_PositionYIncreasing ==
    \A j \in 1..(Len(floors) - 1) : Lt(floors[j].positionY, floors[j + 1].positionY)

\* a tower of MaxFloors thin slabs is complete
C2_Witness == Done /\ Count = MaxFloors /\ params.floorThickness = Num(1, 20)

\* C3 as stated: with more than one floor the floors span exactly
\* [-height/2 + slabHeight/2, height/2 - slabHeight/2]
C3_Original ==
    (Done /\ Count > 1) =>
        /\ First.positionY = Add(Neg(Half(tower.height)), Half(tower.slabHeight))
        /\ Last.positionY = Sub(Half(tower.height), Half(tower.slabHeight))

\* C3 amended: with more than one floor the first floor is at -height/2 + slabHeight/2 and
\* the last at height/2 - height/floorCount + slabHeight/2, which is height/2 - slabHeight/2
\* exactly when the slab fills its floor (floorThickness 1)
C3_Span ==
    (Done /\ Count > 1) =>
        /\ First.positionY = Add(Neg(Half(tower.height)), Half(tower.slabHeight))
        /\ Last.positionY = Add(Sub(Half(tower.height), Div(tower.height, tower.floorCount)),
                                Half(tower.slabHeight))
        /\ (Last.positionY = Sub(Half(tower.height), Half(tower.slabHeight)))
              <=> (env.floorThickness = Whole(1))

\* several floors, each slab thinner than its floor
C3_Witness == Done /\ Count > 2 /\ env.floorThickness = Num(13, 20)

\* C4 as stated: a single floor sits at positionY 0
C4_Original == (Done /\ Count = 1) => First.positionY = Whole(0)

\* C4 amended: a single floor sits at -height/2 + slabHeight/2, which is 0 exactly when
\* slabHeight equals height (floorThickness 1) and below 0 otherwise
C4_SingleFloor ==
    (Done /\ Count = 1) =>
        /\ First.positionY = Add(Neg(Half(tower.height)), Half(tower.slabHeight))
        /\ (First.positionY = Whole(0)) <=> (env.floorThickness = Whole(1))
        /\ Le(First.positionY, Whole(0))

\* one floor of height 30 and thickness 0.65
C4_Witness ==
    Done /\ Count = 1 /\ tower.height = Whole(30) /\ env.floorThickness = Num(13, 20)

\* the numeric fields of a floor, and the aggregate scalars of the tower
FloorNumbers(f) == {f.positionY, f.rotation, f.radius, f.scaleX, f.scaleZ, f.offsetX, f.offsetZ}
TowerNumbers == {tower.slabHeight, tower.height, tower.floorCount, tower.baseRadius, tower.slabSides}

\* C5 as stated: every numeric field of every floor and every aggregate is finite, whatever
\* the input holds
C5_AllFinite ==
    Done =>
        /\ \A x \in TowerNumbers : IsFiniteNumber(x)
        /\ \A j \in 1..Count : \A x \in FloorNumbers(tower.floors[j]) : IsFiniteNumber(x)

\* C6 as stated: radius, scaleX and scaleZ of every floor are strictly positive
C6_Positive ==
    Done =>
        \A j \in 1..Count :
            /\ Lt(Whole(0), tower.floors[j].radius)
            /\ Lt(Whole(0), tower.floors[j].scaleX)
            /\ Lt(Whole(0), tower.floors[j].scaleZ)

SwapTwist(p) == [p EXCEPT !.twistMin = p.twistMax, !.twistMax = p.twistMin]
SwapScale(p) == [p EXCEPT !.scaleMin = p.scaleMax, !.scaleMax = p.scaleMin]
\* a value the builder uses as given: a finite number, or a string that parses to one
Usable(v) == v.k = "num" \/ (v.k = "str" /\ v.d > 0)

\* C7 as stated: swapping twistMin with twistMax, or scaleMin with scaleMax, gives the same tower
C7_Original ==
    Done => (buildTower(SwapTwist(params)) = tower /\ buildTower(SwapScale(params)) = tower)

\* C7 amended: the swap gives the same tower when both swapped values are usable as given;
\* an absent or non-finite value is replaced by the default of the field it sits in
C7_SwapUsable ==
    Done =>
        /\ (Usable(params.twistMin) /\ Usable(params.twistMax))
              => buildTower(SwapTwist(params)) = tower
        /\ (Usable(params.scaleMin) /\ Usable(params.scaleMax))
              => buildTower(SwapScale(params)) = tower

\* three floors built with scaleMin 2 above scaleMax -1
C7_Witness ==
    Done /\ Count = 3 /\ params.scaleMin = Whole(2) /\ params.scaleMax = Whole(-1)

\* the colour a style string resolves to, as the library writes it
Resolved(style) == GetStyle(NewColor(style))

\* C8 as stated: for every floorCount >= 1 the floor at index 0 has the colour gradientStart
\* and the floor at index floorCount-1 the colour gradientEnd
C8_Original ==
    Done => (First.color = Resolved(params.gradientStart) /\ Last.color = Resolved(params.gradientEnd))

\* C8 amended: the last floor has the colour gradientEnd; the floor at index 0 has the colour
\* gradientStart when there is more than one floor, and gradientEnd when it is the only floor
C8_EndColors ==
    Done =>
        /\ Last.color = Resolved(params.gradientEnd)
        /\ Count > 1 => First.color = Resolved(params.gradientStart)
        /\ Count = 1 => First.color = Resolved(params.gradientEnd)

\* a single floor between two different colours
C8_Witness == Done /\ Count = 1 /\ params.gradientStart = Teal /\ params.gradientEnd = Black

\* the piecewise-linear sample at t of control values evenly spaced over [0, 1]
PiecewiseLinearSample(points, t) ==
    LET n == Len(points)
        x == Mul(t, Whole(n - 1))
        k == x.n \div x.d
        v(j) == ToNumber(points[j])
    IN  IF n = 1 THEN v(1)
        ELSE IF k >= n - 1 THEN v(n)
        ELSE Add(Mul(v(k + 1), Sub(Whole(k + 1), x)), Mul(v(k + 2), Sub(x, Whole(k))))

EasedAt(j) == easeInOut(Ratio(tower.floorCount, j - 1))
ClampEach(points, lo, hi) == [j \in 1..Len(points) |-> MathMin(MathMax(points[j], lo), hi)]
SuppliedProfile == RawPoints(params.profilePoints)
SuppliedFloorProfile == RawPoints(params.floorProfilePoints)
\* baseRadius * clamp(lerp(scaleLow, scaleHigh, eased) * sample, 0.15, 3)
RadiusFormula(j, sample) ==
    Mul(tower.baseRadius,
        MathMin(MathMax(Mul(Add(env.scaleStart, Mul(Sub(env.scaleEnd, env.scaleStart), EasedAt(j))),
                            sample), Num(3, 20)), Whole(3)))

\* C9 as stated: radius is baseRadius * clamp(lerp(scaleLow, scaleHigh, eased) * S, 0.15, 3)
\* with S the sample of the profilePoints as supplied
C9_Original ==
    Done =>
        \A j \in 1..Count :
            tower.floors[j].radius = RadiusFormula(j, PiecewiseLinearSample(SuppliedProfile, EasedAt(j)))

\* C9 amended: the same formula with S the sample of the profilePoints after each entry is
\* clamped to [0.25, 2.25]
C9_RadiusFormula ==
    Done =>
        \A j \in 1..Count :
            tower.floors[j].radius =
                RadiusFormula(j, PiecewiseLinearSample(ClampEach(SuppliedProfile, Num(1, 4), Num(9, 4)),
                                                       EasedAt(j)))

\* a middle floor sampled between a control value below 0.25 and one above 2.25
C9_Witness ==
    Done /\ Count = 3 /\ params.profilePoints = ArrayOf(<<Whole(0), Whole(3)>>)
         /\ params.scaleMin = Whole(2) /\ params.scaleMax = Whole(2)

\* C10 as stated: scaleX is radius * clamp(S, 0.6, 1.4) with S the sample of the
\* floorProfilePoints as supplied
C10_Original ==
    Done =>
        \A j \in 1..Count :
            tower.floors[j].scaleX =
                Mul(tower.floors[j].radius,
                    MathMin(MathMax(PiecewiseLinearSample(SuppliedFloorProfile, EasedAt(j)),
                                    Num(3, 5)), Num(7, 5)))

\* C10 amended: scaleX is radius * clamp(S, 0.6, 1.4) with S the sample of the
\* floorProfilePoints after each entry is clamped to [0.6, 1.4]
C10_AspectFormula ==
    Done =>
        \A j \in 1..Count :
            tower.floors[j].scaleX =
                Mul(tower.floors[j].radius,
                    MathMin(MathMax(PiecewiseLinearSample(
                                        ClampEach(SuppliedFloorProfile, Num(3, 5), Num(7, 5)), EasedAt(j)),
                                    Num(3, 5)), Num(7, 5)))

\* a middle floor sampled between control values 0 and 2.8, both outside [0.6, 1.4]
C10_Witness ==
    Done /\ Count = 3 /\ params.floorProfilePoints = ArrayOf(<<Whole(0), Num(14, 5)>>)
         /\ tower.floors[2].scaleX = Mul(tower.floors[2].radius, Whole(1))

\* a numeric field as the builder is said to read it: the number it holds or parses to,
\* otherwise the field's default
Canonical(v, default) ==
    IF v.k = "num" THEN v
    ELSE IF v.k = "str" /\ v.d > 0 THEN Num(v.n, v.d)
    ELSE default

CanonicalParams(p) ==
    [p EXCEPT !.floorCount = Canonical(p.floorCount, Whole(1)),
              !.towerHeight = Canonical(p.towerHeight, Whole(40)),
              !.baseRadius = Canonical(p.baseRadius, Whole(4)),
              !.floorThickness = Canonical(p.floorThickness, Num(1, 2)),
              !.slabSides = Canonical(p.slabSides, Whole(4)),
              !.scaleMin = Canonical(p.scaleMin, Num(4, 5)),
              !.scaleMax = Canonical(p.scaleMax, Num(6, 5)),
              !.twistMin = Canonical(p.twistMin, Whole(-10)),
              !.twistMax = Canonical(p.twistMax, Whole(120))]

\* C11: every numeric field that is absent, non-finite or unparseable is replaced by its own
\* default, field by field, and a finite number or parseable string is used as that number:
\* the tower is the tower of the record with every field so replaced, and the aggregates
\* show the defaults 1, 40, 4 and 4
C11_FieldDefaults ==
    Done =>
        /\ tower = buildTower(CanonicalParams(params))
        /\ ~Usable(params.floorCount) => tower.floorCount = Whole(1)
        /\ ~Usable(params.towerHeight) => tower.height = Whole(40)
        /\ ~Usable(params.baseRadius) => tower.baseRadius = Whole(4)
        /\ ~Usable(params.slabSides) => tower.slabSides = Whole(4)
        /\ ~Usable(params.floorThickness) =>
              tower.slabHeight = Mul(Div(tower.height, tower.floorCount), Num(1, 2))

\* a string floorCount, a NaN height and an absent thickness in one record
C11_Witness ==
    /\ Done /\ Count = 3 /\ tower.height = Whole(40)
    /\ params.floorCount = StrOf(3, 1) /\ params.towerHeight = NaN
    /\ params.floorThickness = Undefined

IsWhole(x) == IsNum(x) /\ x.d = 1

\* the input floorThickness after sanitization, clamped to [0.1, 1.0]
ClampedThickness ==
    LET raw == toFiniteNumber(params.floorThickness, Num(1, 2))
    IN  IF Lt(raw, Num(1, 10)) THEN Num(1, 10) ELSE IF Lt(Whole(1), raw) THEN Whole(1) ELSE raw

\* C12: floorCount is an integer >= 1, height >= 1, baseRadius >= 0.25, slabSides an integer
\* in [3, 48] that every floor's sides equals, and slabHeight is (height / floorCount) * t
\* for the clamped floorThickness t
C12_Aggregates ==
    Done =>
        /\ IsWhole(tower.floorCount) /\ Le(Whole(1), tower.floorCount)
        /\ Le(Whole(1), tower.height)
        /\ Le(Num(1, 4), tower.baseRadius)
        /\ IsWhole(tower.slabSides) /\ Le(Whole(3), tower.slabSides) /\ Le(tower.slabSides, Whole(48))
        /\ \A j \in 1..Count : tower.floors[j].sides = tower.slabSides
        /\ tower.slabHeight = Mul(Div(tower.height, tower.floorCount), ClampedThickness)

\* a fractional slabSides 4.5 and a radius below the minimum
C12_Witness == Done /\ params.slabSides = Num(9, 2) /\ params.baseRadius = Whole(0)

\* an absent, non-array or empty control curve
NoCurve(points) == ~points.arr \/ Len(points.v) = 0

\* C13: with profilePoints (floorProfilePoints) empty, absent or no array the tower is the
\* tower of the same record with that field [1]
C13_DefaultCurve ==
    Done =>
        /\ NoCurve(params.profilePoints)
              => tower = buildTower([params EXCEPT !.profilePoints = UnitCurve])
        /\ NoCurve(params.floorProfilePoints)
              => tower = buildTower([params EXCEPT !.floorProfilePoints = UnitCurve])

\* three floors built from an empty profilePoints array
C13_Witness == Done /\ Count = 3 /\ params.profilePoints = ArrayOf(<<>>)

\* C14 as stated: every floor's radius lies in [0.15 * baseRadius, 3 * baseRadius]
C14_RadiusRange ==
    Done =>
        \A j \in 1..Count :
            /\ Le(Mul(Num(3, 20), tower.baseRadius), tower.floors[j].radius)
            /\ Le(tower.floors[j].radius, Mul(Whole(3), tower.baseRadius))

\* C15 as stated: the call never throws, whatever the fields hold
C15_NeverThrows == pc # "threw"

\* C16: the tower a call returns depends on nothing but its parameter record: every result a
\* caller holds is the tower of its own parameters, and two calls on equal parameters have
\* returned equal towers, whatever calls came before or between them
C16_Deterministic ==
    /\ \A i \in 1..Len(returned) : returned[i].tower = buildTower(returned[i].params)
    /\ \A i, j \in 1..Len(returned) :
         returned[i].params = returned[j].params => returned[i].tower = returned[j].tower

\* three calls have returned, the first and the last on equal parameters and the one between
\* them on a record with another number of floors
C16_Witness ==
    /\ Len(returned) = 3
    /\ returned[1].params = returned[3].params
    /\ Len(returned[2].tower.floors) # Len(returned[1].tower.floors)

\* C17: no step of a call changes the parameter record (its two arrays and their elements
\* included), no step changes a result returned earlier, and the floors array of the result
\* a call returns is none of the arrays of the earlier results
C17_InputAndResultsKept ==
    [][/\ pc \in {"start", "loop"} => params' = params
       /\ Len(returned') >= Len(returned)
       /\ \A i \in 1..Len(returned) : returned'[i] = returned[i]
       /\ Len(returned') > Len(returned) =>
            \A i \in 1..Len(returned) : returned[i].ref # returned'[Len(returned')].ref]_vars

\* a second call, on a record with a two-point profile curve, has returned a tower with more
\* floors than the first call's
C17_Witness ==
    /\ Done
    /\ Len(returned) = 2
    /\ Len(params.profilePoints.v) = 2
    /\ Len(returned[2].tower.floors) > Len(returned[1].tower.floors)

\* the sanitized twist range, low end first
TwistLow ==
    LET a == toFiniteNumber(params.twistMin, Whole(-10))
        b == toFiniteNumber(params.twistMax, Whole(120))
    IN  IF Lt(b, a) THEN b ELSE a
TwistHigh ==
    LET a == toFiniteNumber(params.twistMin, Whole(-10))
        b == toFiniteNumber(params.twistMax, Whole(120))
    IN  IF Lt(b, a) THEN a ELSE b
\* degrees as radians, in multiples of pi
Radians(deg) == Mul(deg, Num(1, 180))

\* C18: rotation is non-decreasing in the index, and with more than one floor it is twistLow
\* at index 0 and twistHigh at the last index, whichever order the two fields are given in
C18_TwistMonotonic ==
    Done =>
        /\ \A j \in 1..(Count - 1) : Le(tower.floors[j].rotation, tower.floors[j + 1].rotation)
        /\ Count > 1 =>
              /\ First.rotation = Radians(TwistLow)
              /\ Last.rotation = Radians(TwistHigh)

\* a tower of MaxFloors floors with twistMin 180 above twistMax -90
C18_Witness ==
    Done /\ Count = MaxFloors /\ params.twistMin = Whole(180) /\ params.twistMax = Whole(-90)

\* the parameters of the worked example, whatever the two colours
IsExample ==
    [params EXCEPT !.gradientStart = Black, !.gradientEnd = White] = Plain

\* C19: the worked example gives exactly 3 floors at positionY -10, 0, 10, each of radius 5
\* and rotation 0
C19_Example ==
    (Done /\ IsExample) =>
        /\ Count = 3
        /\ tower.floors[1].positionY = Whole(-10)
        /\ tower.floors[2].positionY = Whole(0)
        /\ tower.floors[3].positionY = Whole(10)
        /\ \A j \in 1..Count :
              tower.floors[j].radius = Whole(5) /\ tower.floors[j].rotation = Whole(0)

\* the worked example has been built
C19_Witness == Done /\ IsExample /\ Count = 3

\* C20: every Reset step, whatever slider edits, profile edits, handle-count changes,
\* randomize, save and load operations came before it, leaves params equal to defaultParams
\* field for field and leaves the list of saved states as it was
C20_ResetToDefaults ==
    [][lastOp' = "reset" => (params' = defaultParams /\ savedStates' = savedStates)]_vars

\* Reset has just been pressed with a state saved, and the saved state is not the defaults
C20_Witness ==
    /\ lastOp = "reset"
    /\ ops = MaxOps
    /\ Len(savedStates) = 1
    /\ savedStates[1] # defaultParams

\* an application of the named function has returned
Applied(fn) == input.fn = fn /\ output # <<>>
\* v lies between a and b, in either order
Between(v, a, b) == Le(MathMin(a, b), v) /\ Le(v, MathMax(a, b))

\* C21: the sampler returns the single control value of a one-element curve at every t; over a
\* curve of n >= 2 values it returns the k-th value at t = k/(n-1), k in 0..n-1, and at a t
\* between two neighbouring knots a value between the two control values of those knots
C21_SamplerKnots ==
    Applied("sampler") =>
        LET pts == input.points
            n == Len(pts)
        IN  IF n = 1 THEN output[1] = pts[1]
            ELSE /\ \A k \in 0..(n - 1) :
                      input.t = Num(k, n - 1) => output[1] = pts[k + 1]
                 /\ \A k \in 0..(n - 2) :
                      (Le(Num(k, n - 1), input.t) /\ Le(input.t, Num(k + 1, n - 1))) =>
                          Between(output[1], pts[k + 1], pts[k + 2])

\* the sampler has been applied at 3/4, halfway between the last two knots of a three-point
\* curve, and has returned the mean of the two
C21_Witness ==
    /\ Applied("sampler")
    /\ input.points = <<Num(1, 4), Num(9, 4), Whole(1)>>
    /\ input.t = Num(3, 4)
    /\ output[1] = Num(13, 8)

\* C22: easeInOut is 2*t*t below 1/2, mirrored above (easeInOut(t) = 1 - easeInOut(1 - t)),
\* maps 0, 1/2 and 1 to themselves, is non-decreasing, and stays in [0, 1] on [0, 1]
C22_EaseSymmetric ==
    Applied("ease") =>
        /\ Lt(input.t, Num(1, 2)) => output[2] = Mul(Whole(2), Mul(input.t, input.t))
        /\ input.s = Sub(Whole(1), input.t) => output[2] = Sub(Whole(1), output[1])
        /\ input.t \in {Whole(0), Num(1, 2), Whole(1)} => output[2] = input.t
        /\ Le(input.s, input.t) => Le(output[1], output[2])
        /\ Le(Whole(0), output[2]) /\ Le(output[2], Whole(1))

\* the ease has been applied at 1/4 and at its mirror 3/4
C22_Witness ==
    /\ Applied("ease")
    /\ input.s = Num(1, 4)
    /\ input.t = Num(3, 4)
    /\ output = <<Num(1, 8), Num(7, 8)>>

\* C23: for a fixed radius and wobble and two aspects a1 < a2 of [0.6, 1.4], scaleX is
\* radius * aspect and grows strictly, scaleZ is radius * max(0.5, 2 - aspect) *
\* (0.85 + |wobble| * 0.25) and shrinks strictly
C23_Asymmetric ==
    Applied("policy") =>
        /\ output[1] = Mul(input.radius, input.a1)
        /\ output[3] =
             Mul(Mul(input.radius, MathMax(Num(1, 2), Sub(Whole(2), input.a1))),
                 Add(Num(17, 20), Mul(MathAbs(input.wobble), Num(1, 4))))
        /\ Lt(input.a1, input.a2) => (Lt(output[1], output[2]) /\ Lt(output[4], output[3]))

\* the policy has been applied at the two ends of the aspect interval with a negative wobble
C23_Witness ==
    /\ Applied("policy")
    /\ input.a1 = Num(3, 5)
    /\ input.a2 = Num(7, 5)
    /\ input.wobble = Num(-1, 2)
    /\ input.radius = Whole(5)

\* C24: in every tower consecutive floors are exactly floorHeight = height / floorCount apart,
\* slabHeight is at most floorHeight, the bottom face of floor 0 is exactly -height/2 and the
\* top face of the last floor is at most height/2
C24_SlabsInsideHeight ==
    Done =>
        LET floorHeight == Div(tower.height, tower.floorCount)
        IN  /\ \A j \in 1..(Count - 1) :
                 Sub(tower.floors[j + 1].positionY, tower.floors[j].positionY) = floorHeight
            /\ Le(tower.slabHeight, floorHeight)
            /\ Sub(First.positionY, Half(tower.slabHeight)) = Neg(Half(tower.height))
            /\ Le(Add(Last.positionY, Half(tower.slabHeight)), Half(tower.height))

\* a tower of several thin slabs whose last top face stays below height/2
C24_Witness ==
    /\ Done
    /\ Count > 2
    /\ Lt(tower.slabHeight, Div(tower.height, tower.floorCount))
    /\ Lt(Add(Last.positionY, Half(tower.slabHeight)), Half(tower.height))

\* lo <= v <= hi for a number v
Within(v, lo, hi) == IsNum(v) /\ Le(lo, v) /\ Le(v, hi)
\* the tower aggregates buildTower derives from p
AggregatesOf(p) == TowerOf(Sanitize(p), <<>>)

\* C25: in every state of the App every numeric parameter lies inside its slider range
\* (floorCount a whole number), and buildTower's sanitization changes none of floorCount,
\* towerHeight, baseRadius and slabSides
C25_InsideSliderRanges ==
    /\ IsWhole(params.floorCount) /\ Within(params.floorCount, Whole(3), Whole(120))
    /\ Within(params.towerHeight, Whole(20), Whole(220))
    /\ Within(params.baseRadius, Whole(2), Whole(15))
    /\ Within(params.floorThickness, Num(1, 5), Whole(1))
    /\ Within(params.slabSides, Whole(3), Whole(24))
    /\ Within(params.twistMin, Whole(-180), Whole(0))
    /\ Within(params.twistMax, Whole(0), Whole(360))
    /\ Within(params.scaleMin, Num(1, 4), Num(3, 2))
    /\ Within(params.scaleMax, Num(1, 4), Num(5, 2))
    /\ LET built == AggregatesOf(params)
       IN  /\ built.floorCount = params.floorCount
           /\ built.height = params.towerHeight
           /\ built.baseRadius = params.baseRadius
           /\ built.slabSides = params.slabSides

\* the Floors slider was given 500, which became 120, and Scale Min a text that is no
\* number, which became 0.25
C25_Witness ==
    /\ pc = "ui"
    /\ params.floorCount = Whole(120)
    /\ params.scaleMin = Num(1, 4)

\* the two curves of p
Curves == {"profilePoints", "floorProfilePoints"}
LengthsOk(p) == \A k \in Curves : Len(p[k].v) >= 2 /\ Len(p[k].v) <= 8

\* C26: before and after every operation of the App both curves have between 2 and 8 entries,
\* and a handle-count change to n leaves exactly clamp(round(n), 2, 8) entries in its curve and
\* keeps the first and the last control value the curve had
C26_HandleCounts ==
    [][/\ LengthsOk(params)
       /\ LengthsOk(params')
       /\ lastOp' = "count" =>
            LET before == params[lastArg'.key].v
                after == params'[lastArg'.key].v
                count == MathMin(MathMax(MathRound(ToNumber(lastArg'.text)), Whole(2)), Whole(8))
            IN  /\ Whole(Len(after)) = count
                /\ after[1] = before[1]
                /\ after[Len(after)] = before[Len(before)]]_vars

\* the five-point default radius curve has been resampled to three and then to two points
C26_Witness ==
    /\ lastOp = "count"
    /\ lastArg = [key |-> "profilePoints", text |-> StrOf(2, 1)]
    /\ params.profilePoints = ArrayOf(<<Num(21, 20), Whole(1)>>)
    /\ ops = 2

\* every entry of both curves of p is a number of its ProfileMapper's range
EntriesOk(p) ==
    /\ \A j \in 1..Len(p.profilePoints.v) : Within(p.profilePoints.v[j], Num(2, 5), Num(9, 5))
    /\ \A j \in 1..Len(p.floorProfilePoints.v) :
         Within(p.floorProfilePoints.v[j], Num(3, 5), Num(7, 5))
\* seq with the entry at the 0-based index replaced by some number of [lo, hi]
OneEntryChanged(before, after, index, lo, hi) ==
    /\ Len(after) = Len(before)
    /\ index < Len(before)
    /\ Within(after[index + 1], lo, hi)
    /\ \A j \in 1..Len(before) : j # index + 1 => after[j] = before[j]
\* the value range of the ProfileMapper of a curve
RangeOf(k) == CHOOSE m \in Mappers : m.key = k

\* C27 as stated: before and after every operation every profilePoints entry lies in
\* [0.4, 1.8] and every floorProfilePoints entry in [0.6, 1.4]; a point edit (slider of a
\* handle, pointer down, pointer move of a drag) changes exactly the entry at the edited
\* index and leaves the length and the other entries of the curve as they were
C27_OneEntryChanged ==
    [][/\ EntriesOk(params)
       /\ EntriesOk(params')
       /\ lastOp' \in {"points", "down"} =>
            OneEntryChanged(params[lastArg'.key].v, params'[lastArg'.key].v, lastArg'.index,
                            RangeOf(lastArg'.key).min, RangeOf(lastArg'.key).max)
       /\ lastOp' = "move" =>
            \A k \in Curves :
                IF dragIndex[k] = Null THEN params'[k] = params[k]
                ELSE OneEntryChanged(params[k].v, params'[k].v, dragIndex[k].n,
                                     RangeOf(k).min, RangeOf(k).max)]_vars

SelectionOk(sel, saved) == sel = Null \/ HasEntry(saved, sel)

\* C29: before and after every operation selectedStateIndex is null or a valid index into
\* savedStates; Save sets it to the index of the entry it appended; Load of an index with no
\* entry (out of range or NaN) changes neither params nor selectedStateIndex
C29_SelectionValid ==
    [][/\ SelectionOk(selectedStateIndex, savedStates)
       /\ SelectionOk(selectedStateIndex', savedStates')
       /\ lastOp' = "save" =>
            (Len(savedStates') = Len(savedStates) + 1
               /\ selectedStateIndex' = Whole(Len(savedStates') - 1))
       /\ (lastOp' = "load" /\ ~HasEntry(savedStates, lastArg'.idx)) =>
            (params' = params /\ selectedStateIndex' = selectedStateIndex)]_vars

\* with two states saved and the second selected, a load of NaN has changed nothing
C29_Witness ==
    /\ lastOp = "load"
    /\ lastArg.idx = NaN
    /\ Len(savedStates) = 2
    /\ selectedStateIndex = Whole(1)


\* one step of an export: the handler, a settled promise of the picker
ExportStep == lastOp' \in {"export", "settle"} /\ exportJob' # exportJob
Finished(job) == job.started - (IF job.pc = "idle" THEN 0 ELSE 1)
\* C30: an OBJ export delivers its file by exactly one path: when the picker is a function and
\* the pick, createWritable, write and close all succeed, the file is written and no download
\* link is clicked; when the picker is absent or a step throws, the download link is clicked
\* once on a new object URL and nothing is written; every finished export has delivered once;
\* no step of an export changes params or the saved states; every object URL is revoked later
C30_ExportOnePath ==
    /\ [][ExportStep =>
            /\ params' = params
            /\ savedStates' = savedStates
            /\ selectedStateIndex' = selectedStateIndex
            /\ (exportJob'.pc = "idle" /\ lastArg'.key = "close" /\ lastArg'.ok) =>
                   /\ exportJob'.files = exportJob.files + 1
                   /\ exportJob'.clicks = exportJob.clicks
                   /\ exportJob'.urls = exportJob.urls
            /\ (exportJob'.pc = "idle" /\ ~(lastArg'.key = "close" /\ lastArg'.ok)) =>
                   /\ exportJob'.files = exportJob.files
                   /\ exportJob'.clicks = exportJob.clicks + 1
                   /\ exportJob'.urls = exportJob.urls + 1
            /\ exportJob'.pc # "idle" =>
                   /\ exportJob'.files = exportJob.files
                   /\ exportJob'.clicks = exportJob.clicks
                   /\ exportJob'.urls = exportJob.urls]_vars
    /\ [](exportJob.files + exportJob.clicks = Finished(exportJob))
    /\ [](exportJob.revoked <= exportJob.urls /\ exportJob.urls = exportJob.clicks)
    /\ \A n \in 1..(MaxOps + 1) : (exportJob.urls >= n) ~> (exportJob.revoked >= n)
\* an export through the picker and an export through the download have both finished, the
\* second after the parameters changed, and the object URL has been revoked
C30_Witness ==
    /\ exportJob.pc = "idle"
    /\ exportJob.files = 1
    /\ exportJob.clicks = 1
    /\ exportJob.revoked = 1
    /\ params # defaultParams
    /\ lastOp = "revoke"
=============================================================================
